---- MODULE Spec2Model ----
(***************************************************************************)
(* evict-icloud (src/src/main.rs): the traversal-and-eviction pipeline.    *)
(*                                                                         *)
(* Threads of the process: the main thread (main), the rayon pool's worker *)
(* threads (the par_iter closure, one file at a time per thread) and the   *)
(* ctrlc handler thread (the closure given to ctrlc::set_handler).  Every  *)
(* atomic load, store and fetch_add of the source is a step of its own, so *)
(* that all interleavings of the three kinds of thread are explored; what  *)
(* a thread does on its own between two of them (a call returning, a line  *)
(* printed, a branch on a local) is taken with the atomic operation that   *)
(* follows it.  The relaxed atomics are taken as sequentially consistent.  *)
(***************************************************************************)
EXTENDS Naturals, Sequences, FiniteSets

\* ---------------------------------------------------------------- bounds
MaxFiles == 2
MaxThreads == 2

\* The lengths std::fs::metadata reports: the k-th file claimed has the k-th of
\* these lengths (repeating after the third).
Sizes == <<500, 2000, 1572864>>
FileSize(f) == Sizes[((f - 1) % Len(Sizes)) + 1]

VARIABLES
    cli,            \* Cli: [dry_run: BOOLEAN] (cli.concurrency is consumed at line 64)
    concurrency,    \* main's local `concurrency` (line 64)
    files,          \* number of paths collected into `files` (lines 67-72)
    stats,          \* the six atomic counters
    shutdown_flag,  \* AtomicBool
    handler_set,    \* the ctrlc handler is installed
    pool_threads,   \* threads of the rayon pool (0: no pool built)
    main_pc,        \* position of the main thread
    handler_pc,     \* position of the ctrlc handler thread
    sig_pending,    \* a SIGINT was delivered and the handler thread has not yet taken it
    snap,           \* counters loaded so far by a running print_summary, per thread
    summaries,      \* the summaries printed so far
    proc,           \* "running", or how the process ended
    diag,           \* "no_files" once "No files found" was written to stderr
    walk_err,       \* the walk of the root directory yielded an error entry
    fpc,            \* per file: position of the closure invocation for it
    fsize,          \* per file: file_size as returned by metadata
    outcome,        \* per file: the classified outcome
    invocs,         \* per file: closure invocations started for it
    attempts,       \* per file: stats.0 increments made for it
    brctl,          \* per file: Command::status calls made for it
    check_saw,      \* per file: what the load of shutdown_flag at line 106 returned
    panicked        \* a closure invocation panicked inside the pool

vars == <<cli, concurrency, files, stats, shutdown_flag, handler_set, pool_threads,
          main_pc, handler_pc, sig_pending, snap, summaries, proc, diag,
          walk_err, fpc, fsize, outcome, invocs, attempts, brctl, check_saw, panicked>>

mainVars == <<cli, concurrency, files, handler_set, pool_threads, main_pc, diag, walk_err>>
sigVars == <<handler_pc, sig_pending>>
fileVars == <<fpc, fsize, outcome, invocs, attempts, brctl, check_saw, panicked>>

\* ------------------------------------------------------------ the counters
\* The tuple fields stats.0 .. stats.5, in the order print_summary loads them.
CounterOrder == <<"attempted", "successful", "failed",
                  "attempted_bytes", "successful_bytes", "failed_bytes">>

ZeroStats == [c \in {CounterOrder[i] : i \in 1..6} |-> 0]

\* Variant: a store in place of the fetch_add.
fetch_store(c, n) == stats' = [stats EXCEPT ![c] = n]

\* stats.<c>.fetch_add(n, Ordering::Relaxed)
fetch_add(c, n) == stats' = [stats EXCEPT ![c] = @ + n]

Files == 1..files

Running == proc = "running"

\* Positions of a closure invocation, grouped as the states of the worker's
\* per-file state machine.
MetadataLookup == {"Attempt", "Metadata"}
DryRunBranch == {"DryRun", "DryBytes"}
LiveEvictionBranch == {"Command", "EvictedBytes", "FailBytes"}
InFlight == MetadataLookup \cup DryRunBranch \cup LiveEvictionBranch
Terminal == {"Recorded", "Skipped", "Panicked", "Dropped"}

\* ------------------------------------------------------------------- Init
Init ==
    /\ cli \in [dry_run : BOOLEAN]
    /\ concurrency = 0
    /\ files = 0
    /\ stats = ZeroStats
    /\ shutdown_flag = FALSE
    /\ handler_set = FALSE
    /\ pool_threads = 0
    /\ main_pc = "resolve"
    /\ handler_pc = "wait"
    /\ sig_pending = FALSE
    /\ snap = [t \in {"main", "handler"} |-> <<>>]
    /\ summaries = <<>>
    /\ proc = "running"
    /\ diag = "none"
    /\ walk_err = FALSE
    /\ fpc = <<>>
    /\ fsize = <<>>
    /\ outcome = <<>>
    /\ invocs = <<>>
    /\ attempts = <<>>
    /\ brctl = <<>>
    /\ check_saw = <<>>
    /\ panicked = FALSE

\* ------------------------------------------------------------ main thread
\* Option<usize>: {} is None, {n} is Some(n).
OptionUsize == {{}} \cup {{n} : n \in 0..MaxThreads}

\* opt.unwrap_or_else(f), with f() = dflt
unwrap_or_else(opt, dflt) == IF opt = {} THEN dflt ELSE CHOOSE n \in opt : TRUE

\* line 64: cli.concurrency.unwrap_or_else(num_cpus::get); the option given on
\* the command line and the machine's logical CPU count are inputs.
ResolveConcurrency ==
    /\ Running /\ main_pc = "resolve"
    /\ \E opt \in OptionUsize : \E num_cpus \in 1..MaxThreads :
          concurrency' = unwrap_or_else(opt, num_cpus)
    /\ main_pc' = "walk"
    /\ UNCHANGED <<cli, files, handler_set, pool_threads, diag, walk_err>>
    /\ UNCHANGED <<stats, shutdown_flag, snap, summaries, proc>>
    /\ UNCHANGED sigVars /\ UNCHANGED fileVars

\* Variant: the is_empty test of line 74 is missing.
Enumerate_nocheck ==
    /\ Running /\ main_pc = "walk"
    /\ \E readable \in BOOLEAN :
       \E n \in 0..MaxFiles :
          /\ (~readable => n = 0)
          /\ files' = n
          /\ walk_err' = ~readable
          /\ fpc' = [f \in 1..n |-> "Start"]
          /\ fsize' = [f \in 1..n |-> 0]
          /\ outcome' = [f \in 1..n |-> "none"]
          /\ invocs' = [f \in 1..n |-> 0]
          /\ attempts' = [f \in 1..n |-> 0]
          /\ brctl' = [f \in 1..n |-> 0]
          /\ check_saw' = [f \in 1..n |-> "none"]
          /\ diag' = diag
          /\ main_pc' = "set_handler"
          /\ proc' = proc
    /\ UNCHANGED <<cli, concurrency, handler_set, pool_threads>>
    /\ UNCHANGED <<stats, shutdown_flag, snap, summaries, panicked>>
    /\ UNCHANGED sigVars

\* lines 67-77: the walk; entries that are errors are dropped by filter_map(entry.ok()),
\* so an unreadable root yields the empty list.  An empty list: eprintln and return.
Enumerate ==
    /\ Running /\ main_pc = "walk"
    /\ \E readable \in BOOLEAN :
       \E n \in 0..MaxFiles :
          /\ (~readable => n = 0)
          /\ files' = n
          /\ walk_err' = ~readable
          /\ fpc' = [f \in 1..n |-> "Start"]
          /\ fsize' = [f \in 1..n |-> 0]
          /\ outcome' = [f \in 1..n |-> "none"]
          /\ invocs' = [f \in 1..n |-> 0]
          /\ attempts' = [f \in 1..n |-> 0]
          /\ brctl' = [f \in 1..n |-> 0]
          /\ check_saw' = [f \in 1..n |-> "none"]
          /\ IF n = 0
               THEN /\ diag' = "no_files"
                    /\ main_pc' = "returned"
                    /\ proc' = "returned"
               ELSE /\ diag' = diag
                    /\ main_pc' = "set_handler"
                    /\ proc' = proc
    /\ UNCHANGED <<cli, concurrency, handler_set, pool_threads>>
    /\ UNCHANGED <<stats, shutdown_flag, snap, summaries, panicked>>
    /\ UNCHANGED sigVars

\* lines 79-97: the counters and the flag are created, the handler is registered.
SetHandler ==
    /\ Running /\ main_pc = "set_handler"
    /\ stats' = ZeroStats
    /\ shutdown_flag' = FALSE
    /\ handler_set' = TRUE
    /\ main_pc' = "build_pool"
    /\ UNCHANGED <<cli, concurrency, files, pool_threads, diag, walk_err>>
    /\ UNCHANGED <<snap, summaries, proc>>
    /\ UNCHANGED sigVars /\ UNCHANGED fileVars

\* lines 99-102: ThreadPoolBuilder::num_threads(concurrency); 0 asks rayon for its
\* default number of threads.
BuildPool ==
    /\ Running /\ main_pc = "build_pool"
    /\ IF concurrency = 0
         THEN \E n \in 1..MaxThreads : pool_threads' = n
         ELSE pool_threads' = concurrency
    /\ main_pc' = "install"
    /\ UNCHANGED <<cli, concurrency, files, handler_set, diag, walk_err>>
    /\ UNCHANGED <<stats, shutdown_flag, snap, summaries, proc>>
    /\ UNCHANGED sigVars /\ UNCHANGED fileVars

\* lines 104-157: pool.install returns when every item of par_iter has been
\* consumed; a panic of the closure is resumed on the caller, so main unwinds
\* and line 159 is never reached.
InstallReturns ==
    /\ Running /\ main_pc = "install"
    /\ \A f \in Files : fpc[f] \in Terminal
    /\ IF panicked
         THEN main_pc' = "panicked" /\ proc' = "panic"
         ELSE main_pc' = "summary" /\ proc' = proc
    /\ UNCHANGED <<cli, concurrency, files, handler_set, pool_threads, diag, walk_err>>
    /\ UNCHANGED <<stats, shutdown_flag, snap, summaries>>
    /\ UNCHANGED sigVars /\ UNCHANGED fileVars

\* line 160: main returns, the process ends.
MainReturns ==
    /\ Running /\ main_pc = "return"
    /\ main_pc' = "returned"
    /\ proc' = "returned"
    /\ UNCHANGED <<cli, concurrency, files, handler_set, pool_threads, diag, walk_err>>
    /\ UNCHANGED <<stats, shutdown_flag, snap, summaries>>
    /\ UNCHANGED sigVars /\ UNCHANGED fileVars

\* ---------------------------------------------------------- print_summary
ThreadPc(t) == IF t = "main" THEN main_pc ELSE handler_pc

\* Variant: the attempted line is printed from stats.2 and the failed line
\* from stats.0.
Loaded_swapped(t, last) ==
    LET six == Append(snap[t], last)
    IN  [attempted |-> six[3], successful |-> six[2], failed |-> six[1],
         attempted_bytes |-> six[4], successful_bytes |-> six[5],
         failed_bytes |-> six[6]]

\* The six values print_summary holds once the last one is loaded, by counter.
Loaded(t, last) ==
    LET six == Append(snap[t], last)
    IN  [attempted |-> six[1], successful |-> six[2], failed |-> six[3],
         attempted_bytes |-> six[4], successful_bytes |-> six[5],
         failed_bytes |-> six[6]]

\* lines 45-49: one relaxed load per step, in the order of CounterOrder.
LoadCounter(t) ==
    /\ Running /\ ThreadPc(t) = "summary"
    /\ Len(snap[t]) < 5
    /\ snap' = [snap EXCEPT ![t] = Append(@, stats[CounterOrder[Len(@) + 1]])]
    /\ UNCHANGED <<stats, shutdown_flag, summaries, proc>>
    /\ UNCHANGED mainVars /\ UNCHANGED sigVars /\ UNCHANGED fileVars

\* lines 50-56: the sixth load, then the block is printed from the six values.
PrintBlock(t) ==
    /\ Running /\ ThreadPc(t) = "summary"
    /\ Len(snap[t]) = 5
    /\ summaries' = Append(summaries,
                           [by |-> t, vals |-> Loaded(t, stats[CounterOrder[6]])])
    /\ snap' = [snap EXCEPT ![t] = <<>>]
    /\ IF t = "main"
         THEN main_pc' = "return" /\ handler_pc' = handler_pc
         ELSE handler_pc' = "exit" /\ main_pc' = main_pc
    /\ UNCHANGED <<cli, concurrency, files, handler_set, pool_threads, diag, walk_err>>
    /\ UNCHANGED <<stats, shutdown_flag, proc, sig_pending>>
    /\ UNCHANGED fileVars

\* ------------------------------------------------------ the ctrlc handler
\* The environment delivers SIGINT to the process and the handler thread, which
\* is waiting, is notified.  A SIGINT delivered once the handler thread runs the
\* closure changes nothing in the process: the closure never returns (line 96),
\* so the thread never takes another notification.
Signal ==
    /\ Running /\ handler_set
    /\ handler_pc = "wait" /\ ~sig_pending
    /\ sig_pending' = TRUE
    /\ UNCHANGED handler_pc
    /\ UNCHANGED <<stats, shutdown_flag, snap, summaries, proc>>
    /\ UNCHANGED mainVars /\ UNCHANGED fileVars

\* lines 93-94: the handler thread takes the signal and runs the closure:
\* println, shutdown_clone.store(true, Relaxed).
HandlerStore ==
    /\ Running /\ handler_pc = "wait" /\ sig_pending
    /\ sig_pending' = FALSE
    /\ shutdown_flag' = TRUE
    /\ handler_pc' = "summary"
    /\ UNCHANGED <<stats, snap, summaries, proc>>
    /\ UNCHANGED mainVars /\ UNCHANGED fileVars

\* Variant: the handler lets the closure invocations in progress return before
\* it ends the process.
HandlerExit_join ==
    /\ Running /\ handler_pc = "exit"
    /\ \A f \in 1..files : fpc[f] \notin InFlight
    /\ proc' = "exit0"
    /\ handler_pc' = "exited"
    /\ UNCHANGED sig_pending
    /\ UNCHANGED <<stats, shutdown_flag, snap, summaries>>
    /\ UNCHANGED mainVars /\ UNCHANGED fileVars

\* Variant: the closure returns to the handler thread's loop instead of ending
\* the process.
HandlerExit_return ==
    /\ Running /\ handler_pc = "exit"
    /\ handler_pc' = "wait"
    /\ UNCHANGED <<proc, sig_pending>>
    /\ UNCHANGED <<stats, shutdown_flag, snap, summaries>>
    /\ UNCHANGED mainVars /\ UNCHANGED fileVars

\* line 96: std::process::exit(0) ends every thread of the process.
HandlerExit ==
    /\ Running /\ handler_pc = "exit"
    /\ proc' = "exit0"
    /\ handler_pc' = "exited"
    /\ UNCHANGED sig_pending
    /\ UNCHANGED <<stats, shutdown_flag, snap, summaries>>
    /\ UNCHANGED mainVars /\ UNCHANGED fileVars

\* ------------------------------------------------- the par_iter closure
\* The pool's threads are interchangeable and each runs one closure invocation
\* at a time, so a thread is identified with the file its invocation is on: the
\* busy threads are the files in flight.
At(f, pos) == f \in Files /\ fpc[f] = pos

\* The closure invocation for f moves to position pos.
Goto(f, pos) == fpc' = [fpc EXCEPT ![f] = pos]

WorkerStep == Running /\ main_pc = "install"

\* The files a pool thread is inside a closure invocation for.
Busy == {f \in Files : fpc[f] \in InFlight}

\* Variant: the pool starts an invocation whether or not a thread is free.
IdleThread_any == pool_threads > 0

\* A pool thread is not inside a closure invocation.
IdleThread == Cardinality(Busy) < pool_threads

\* Variant: an element already processed is handed to the closure again.
Unclaimed_retry == {f \in Files : fpc[f] \in {"Start", "Recorded"}}

\* The elements of `files` not yet handed to the closure.
Unclaimed == {f \in Files : fpc[f] = "Start"}

\* The files are interchangeable (each file's metadata and command results are
\* chosen when they happen), so they are numbered in the order they are claimed.
Lowest(S) == CHOOSE x \in S : \A y \in S : x <= y

\* Variant: the closure does not return when the flag is set.
StartFile_nocheck(f) ==
    /\ WorkerStep
    /\ IdleThread
    /\ f \in Unclaimed /\ f = Lowest(Unclaimed)
    /\ invocs' = [invocs EXCEPT ![f] = @ + 1]
    /\ check_saw' = [check_saw EXCEPT ![f] = IF shutdown_flag THEN "true" ELSE "false"]
    /\ Goto(f, "Attempt")
    /\ UNCHANGED <<fsize, outcome, attempts, brctl, panicked>>
    /\ UNCHANGED <<stats, shutdown_flag, snap, summaries, proc>>
    /\ UNCHANGED mainVars /\ UNCHANGED sigVars

\* Variant: the attempt is counted before the flag is tested.
StartFile_count(f) ==
    /\ WorkerStep
    /\ IdleThread
    /\ f \in Unclaimed /\ f = Lowest(Unclaimed)
    /\ invocs' = [invocs EXCEPT ![f] = @ + 1]
    /\ check_saw' = [check_saw EXCEPT ![f] = IF shutdown_flag THEN "true" ELSE "false"]
    /\ IF shutdown_flag
         THEN Goto(f, "Skipped") /\ fetch_add("attempted", 1)
         ELSE Goto(f, "Attempt") /\ stats' = stats
    /\ UNCHANGED <<fsize, outcome, attempts, brctl, panicked>>
    /\ UNCHANGED <<shutdown_flag, snap, summaries, proc>>
    /\ UNCHANGED mainVars /\ UNCHANGED sigVars

\* lines 105-108: par_iter().for_each hands each element of `files` to one
\* closure invocation, on a pool thread that is not inside another invocation;
\* the invocation begins with `if shutdown_flag.load(Relaxed) { return; }`.
StartFile(f) ==
    /\ WorkerStep
    /\ IdleThread
    /\ f \in Unclaimed /\ f = Lowest(Unclaimed)
    /\ invocs' = [invocs EXCEPT ![f] = @ + 1]
    /\ check_saw' = [check_saw EXCEPT ![f] = IF shutdown_flag THEN "true" ELSE "false"]
    /\ IF shutdown_flag
         THEN Goto(f, "Skipped")
         ELSE Goto(f, "Attempt")
    /\ UNCHANGED <<fsize, outcome, attempts, brctl, panicked>>
    /\ UNCHANGED <<stats, shutdown_flag, snap, summaries, proc>>
    /\ UNCHANGED mainVars /\ UNCHANGED sigVars

\* line 110: stats.0.fetch_add(1); the thread then calls std::fs::metadata.
RecordAttempt(f) ==
    /\ WorkerStep /\ At(f, "Attempt")
    /\ fetch_add("attempted", 1)
    /\ attempts' = [attempts EXCEPT ![f] = @ + 1]
    /\ Goto(f, "Metadata")
    /\ UNCHANGED <<fsize, outcome, invocs, brctl, check_saw, panicked>>
    /\ UNCHANGED <<shutdown_flag, snap, summaries, proc>>
    /\ UNCHANGED mainVars /\ UNCHANGED sigVars

\* Variant: the dry-run test is missing.
Branch_live(dry_run) == "Command"

\* line 124: if cli.dry_run
Branch(dry_run) == IF dry_run THEN "DryRun" ELSE "Command"

\* Variant: the error arm increments stats.0 instead of stats.2.
MetadataErr_idx0(f) ==
    /\ WorkerStep /\ At(f, "Metadata")
    /\ outcome' = [outcome EXCEPT ![f] = "MetadataError"]
    /\ fetch_add("attempted", 1)
    /\ Goto(f, "Recorded")
    /\ UNCHANGED <<fsize, invocs, attempts, brctl, check_saw, panicked>>
    /\ UNCHANGED <<shutdown_flag, snap, summaries, proc>>
    /\ UNCHANGED mainVars /\ UNCHANGED sigVars

\* Variant: the error arm also adds a size to stats.5.
MetadataErr_bytes(f) ==
    /\ WorkerStep /\ At(f, "Metadata")
    /\ outcome' = [outcome EXCEPT ![f] = "MetadataError"]
    /\ stats' = [stats EXCEPT !["failed"] = @ + 1, !["failed_bytes"] = @ + FileSize(f)]
    /\ Goto(f, "Recorded")
    /\ UNCHANGED <<fsize, invocs, attempts, brctl, check_saw, panicked>>
    /\ UNCHANGED <<shutdown_flag, snap, summaries, proc>>
    /\ UNCHANGED mainVars /\ UNCHANGED sigVars

\* lines 113-118: std::fs::metadata(file_path) returns Err: eprintln,
\* stats.2.fetch_add(1), return.
MetadataErr(f) ==
    /\ WorkerStep /\ At(f, "Metadata")
    /\ outcome' = [outcome EXCEPT ![f] = "MetadataError"]
    /\ fetch_add("failed", 1)
    /\ Goto(f, "Recorded")
    /\ UNCHANGED <<fsize, invocs, attempts, brctl, check_saw, panicked>>
    /\ UNCHANGED <<shutdown_flag, snap, summaries, proc>>
    /\ UNCHANGED mainVars /\ UNCHANGED sigVars

\* lines 113-114, 122-124: std::fs::metadata(file_path) returns Ok: file_size is
\* its len(), stats.3.fetch_add(file_size), then the dry-run test.
MetadataOk(f) ==
    /\ WorkerStep /\ At(f, "Metadata")
    /\ \E len \in {FileSize(f)} :
          /\ fsize' = [fsize EXCEPT ![f] = len]
          /\ fetch_add("attempted_bytes", len)
    /\ Goto(f, Branch(cli.dry_run))
    /\ UNCHANGED <<outcome, invocs, attempts, brctl, check_saw, panicked>>
    /\ UNCHANGED <<shutdown_flag, snap, summaries, proc>>
    /\ UNCHANGED mainVars /\ UNCHANGED sigVars

\* lines 125-126: println, stats.1.fetch_add(1)
DryRunCount(f) ==
    /\ WorkerStep /\ At(f, "DryRun")
    /\ fetch_add("successful", 1)
    /\ outcome' = [outcome EXCEPT ![f] = "DryRunSimulated"]
    /\ Goto(f, "DryBytes")
    /\ UNCHANGED <<fsize, invocs, attempts, brctl, check_saw, panicked>>
    /\ UNCHANGED <<shutdown_flag, snap, summaries, proc>>
    /\ UNCHANGED mainVars /\ UNCHANGED sigVars

\* Variant: the dry-run arm adds the size to stats.3 instead of stats.4.
DryRunBytes_idx3(f) ==
    /\ WorkerStep /\ At(f, "DryBytes")
    /\ fetch_add("attempted_bytes", fsize[f])
    /\ Goto(f, "Recorded")
    /\ UNCHANGED <<fsize, outcome, invocs, attempts, brctl, check_saw, panicked>>
    /\ UNCHANGED <<shutdown_flag, snap, summaries, proc>>
    /\ UNCHANGED mainVars /\ UNCHANGED sigVars

\* lines 127-128: stats.4.fetch_add(file_size), return
DryRunBytes(f) ==
    /\ WorkerStep /\ At(f, "DryBytes")
    /\ fetch_add("successful_bytes", fsize[f])
    /\ Goto(f, "Recorded")
    /\ UNCHANGED <<fsize, outcome, invocs, attempts, brctl, check_saw, panicked>>
    /\ UNCHANGED <<shutdown_flag, snap, summaries, proc>>
    /\ UNCHANGED mainVars /\ UNCHANGED sigVars

\* line 132: file_path.to_str().unwrap() on a path that is not valid UTF-8: the
\* closure panics before brctl is started.  The items that follow the file in the
\* same sequential chunk of the parallel iterator are never handed to the closure;
\* the other chunks are still run, then the panic is resumed on the caller.
UnwrapPanic(f) ==
    /\ WorkerStep /\ At(f, "Command")
    /\ panicked' = TRUE
    /\ \E rest \in SUBSET Unclaimed :
          fpc' = [g \in Files |-> IF g = f THEN "Panicked"
                                  ELSE IF g \in rest THEN "Dropped"
                                  ELSE fpc[g]]
    /\ UNCHANGED <<fsize, outcome, invocs, attempts, brctl, check_saw>>
    /\ UNCHANGED <<stats, shutdown_flag, snap, summaries, proc>>
    /\ UNCHANGED mainVars /\ UNCHANGED sigVars

\* Variant: the success arm increments stats.2 as well as stats.1.
CommandSuccess_both(f) ==
    /\ WorkerStep /\ At(f, "Command")
    /\ brctl' = [brctl EXCEPT ![f] = @ + 1]
    /\ outcome' = [outcome EXCEPT ![f] = "Evicted"]
    /\ stats' = [stats EXCEPT !["successful"] = @ + 1, !["failed"] = @ + 1]
    /\ Goto(f, "EvictedBytes")
    /\ UNCHANGED <<fsize, invocs, attempts, check_saw, panicked>>
    /\ UNCHANGED <<shutdown_flag, snap, summaries, proc>>
    /\ UNCHANGED mainVars /\ UNCHANGED sigVars

\* lines 131-137: Command::new("brctl").args(["evict", path]).status() returns
\* Ok with exit status zero: println, stats.1.fetch_add(1).
CommandSuccess(f) ==
    /\ WorkerStep /\ At(f, "Command")
    /\ brctl' = [brctl EXCEPT ![f] = @ + 1]
    /\ outcome' = [outcome EXCEPT ![f] = "Evicted"]
    /\ fetch_add("successful", 1)
    /\ Goto(f, "EvictedBytes")
    /\ UNCHANGED <<fsize, invocs, attempts, check_saw, panicked>>
    /\ UNCHANGED <<shutdown_flag, snap, summaries, proc>>
    /\ UNCHANGED mainVars /\ UNCHANGED sigVars

\* lines 140-147 and 150-152: status() returns Ok with a nonzero exit status, or
\* Err (brctl could not be started): eprintln, stats.2.fetch_add(1).
CommandFailure(f) ==
    /\ WorkerStep /\ At(f, "Command")
    /\ brctl' = [brctl EXCEPT ![f] = @ + 1]
    /\ \E res \in {"CommandFailed", "CommandError"} :
          outcome' = [outcome EXCEPT ![f] = res]
    /\ fetch_add("failed", 1)
    /\ Goto(f, "FailBytes")
    /\ UNCHANGED <<fsize, invocs, attempts, check_saw, panicked>>
    /\ UNCHANGED <<shutdown_flag, snap, summaries, proc>>
    /\ UNCHANGED mainVars /\ UNCHANGED sigVars

\* line 138: stats.4.fetch_add(file_size)
EvictedBytes(f) ==
    /\ WorkerStep /\ At(f, "EvictedBytes")
    /\ fetch_add("successful_bytes", fsize[f])
    /\ Goto(f, "Recorded")
    /\ UNCHANGED <<fsize, outcome, invocs, attempts, brctl, check_saw, panicked>>
    /\ UNCHANGED <<shutdown_flag, snap, summaries, proc>>
    /\ UNCHANGED mainVars /\ UNCHANGED sigVars

\* Variant: the failure arms do not add the size to stats.5.
FailBytes_lost(f) ==
    /\ WorkerStep /\ At(f, "FailBytes")
    /\ Goto(f, "Recorded")
    /\ UNCHANGED <<fsize, outcome, invocs, attempts, brctl, check_saw, panicked>>
    /\ UNCHANGED <<stats, shutdown_flag, snap, summaries, proc>>
    /\ UNCHANGED mainVars /\ UNCHANGED sigVars

\* lines 148 and 153: stats.5.fetch_add(file_size)
FailBytes(f) ==
    /\ WorkerStep /\ At(f, "FailBytes")
    /\ fetch_add("failed_bytes", fsize[f])
    /\ Goto(f, "Recorded")
    /\ UNCHANGED <<fsize, outcome, invocs, attempts, brctl, check_saw, panicked>>
    /\ UNCHANGED <<shutdown_flag, snap, summaries, proc>>
    /\ UNCHANGED mainVars /\ UNCHANGED sigVars

\* ------------------------------------------------------------------- Next
Next ==
    \/ ResolveConcurrency
    \/ Enumerate
    \/ SetHandler
    \/ BuildPool
    \/ InstallReturns
    \/ MainReturns
    \/ \E t \in {"main", "handler"} : LoadCounter(t)
    \/ \E t \in {"main", "handler"} : PrintBlock(t)
    \/ Signal
    \/ HandlerStore
    \/ HandlerExit
    \/ \E f \in Files : StartFile(f)
    \/ \E f \in Files : RecordAttempt(f)
    \/ \E f \in Files : MetadataErr(f)
    \/ \E f \in Files : MetadataOk(f)
    \/ \E f \in Files : DryRunCount(f)
    \/ \E f \in Files : DryRunBytes(f)
    \/ \E f \in Files : UnwrapPanic(f)
    \/ \E f \in Files : CommandSuccess(f)
    \/ \E f \in Files : CommandFailure(f)
    \/ \E f \in Files : EvictedBytes(f)
    \/ \E f \in Files : FailBytes(f)

Spec == Init /\ [][Next]_vars

\* A further SIGINT delivered while the handler thread is inside the closure
\* (lines 93-96): it is left pending for the thread's next wait.  Spec leaves
\* these deliveries out, as the closure never returns to the wait; SignalSpec has
\* them, to check that they change nothing.
Resignal ==
    /\ Running /\ handler_set
    /\ handler_pc # "wait" /\ ~sig_pending
    /\ sig_pending' = TRUE
    /\ UNCHANGED handler_pc
    /\ UNCHANGED <<stats, shutdown_flag, snap, summaries, proc>>
    /\ UNCHANGED mainVars /\ UNCHANGED fileVars

NextResignal == Next \/ Resignal

SignalSpec == Init /\ [][NextResignal]_vars

\* The ctrlc handler thread is a thread of its own, spawned by set_handler: the
\* operating system keeps scheduling it whatever the other threads do, so a step
\* of the closure that stays possible is eventually taken.  Nothing is assumed of
\* the pool's threads (brctl may never return) nor of the main thread.
HandlerNext ==
    \/ HandlerStore
    \/ LoadCounter("handler")
    \/ PrintBlock("handler")
    \/ HandlerExit

FairSpec == Spec /\ WF_vars(HandlerNext)

\* ================================================================ claims
\* The six values the i-th summary printed reports.
Report(i) == summaries[i].vals

Printed == 1..Len(summaries)

\* attempted == successful + failed, in counts and in bytes
Balanced(st) ==
    /\ st.attempted = st.successful + st.failed
    /\ st.attempted_bytes = st.successful_bytes + st.failed_bytes

RECURSIVE SumFileSize(_)
SumFileSize(S) ==
    IF S = {} THEN 0
    ELSE LET f == CHOOSE x \in S : TRUE IN FileSize(f) + SumFileSize(S \ {f})

RECURSIVE SumSize(_)
SumSize(S) ==
    IF S = {} THEN 0
    ELSE LET f == CHOOSE x \in S : TRUE IN fsize[f] + SumSize(S \ {f})

RECURSIVE SumAttempts(_)
SumAttempts(S) ==
    IF S = {} THEN 0
    ELSE LET f == CHOOSE x \in S : TRUE IN attempts[f] + SumAttempts(S \ {f})

\* pool.install has returned normally: the orchestrator is at or past line 159.
AtFinalSummary == main_pc \in {"summary", "return"} \/ (main_pc = "returned" /\ files > 0)

\* No SIGINT has been delivered so far.
NoSignal == handler_pc = "wait" /\ ~sig_pending

Failures == {"MetadataError", "CommandFailed", "CommandError"}

\* C1: once pool.install has returned (all workers finished) the counters satisfy
\* attempted = successful + failed and attempted_bytes = successful_bytes +
\* failed_bytes, and so does the summary the orchestrator prints, whatever the
\* mix of per-file outcomes.
C1_BalancedAtFinalSummary ==
    /\ AtFinalSummary => Balanced(stats)
    /\ \A i \in Printed : summaries[i].by = "main" => Balanced(Report(i))

\* C1 witness: the orchestrator printed its summary after a live run in which
\* one file was evicted and another failed.
C1_Witness ==
    /\ ~cli.dry_run
    /\ \E i \in Printed : /\ summaries[i].by = "main"
                          /\ Report(i).successful = 1 /\ Report(i).failed = 1
    /\ \E f \in Files : outcome[f] \in Failures

\* C2 as claimed: in no step taken with the interrupt flag already true is the
\* attempted counter incremented.
C2_NoAttemptAfterFlag ==
    [][shutdown_flag => stats.attempted' = stats.attempted]_vars

\* C2 amended: once the flag is true, no file whose interrupt check comes
\* afterwards is attempted (the check makes it Skipped); an increment of attempted
\* made while the flag is true is made for a file whose check had loaded false
\* before the flag was set.
C2_NoCheckPassesAfterFlag ==
    [][shutdown_flag =>
          /\ \A f \in Files :
                fpc[f] = "Start" =>
                   /\ fpc'[f] \in {"Start", "Skipped", "Dropped"}
                   /\ attempts'[f] = attempts[f]
          /\ stats.attempted' # stats.attempted =>
                \E f \in Files : /\ fpc[f] = "Attempt" /\ check_saw[f] = "false"
                                 /\ attempts'[f] = attempts[f] + 1
                                 /\ stats.attempted' = stats.attempted + 1]_vars

\* C2 witness: the flag is set, one file was skipped by its check, and another
\* file that passed its check before the store has gone on to be attempted.
C2_Witness ==
    /\ shutdown_flag
    /\ \E f \in Files : fpc[f] = "Skipped" /\ attempts[f] = 0
    /\ \E f \in Files : check_saw[f] = "false" /\ attempts[f] = 1
    /\ \E i \in Printed : summaries[i].by = "handler" /\ Report(i).attempted = 0

\* C3 as claimed: when the process is ended by the interrupt handler, no file
\* that passed the interrupt check is left short of Recorded.
C3_InFlightRecordedBeforeExit ==
    proc = "exit0" => \A f \in Files : fpc[f] \notin InFlight

\* C4 as claimed: in a run with no interrupt, once the process has ended every
\* file was attempted and reached Recorded, and the orchestrator printed the
\* final summary.
C4_FailuresIsolated ==
    (proc # "running" /\ files > 0 /\ NoSignal) =>
        /\ \A f \in Files : attempts[f] = 1 /\ fpc[f] = "Recorded"
        /\ \E i \in Printed : summaries[i].by = "main"

\* C5: with dry-run configured brctl is never started for any file, no file is
\* in the live eviction branch, every outcome is DryRunSimulated or
\* MetadataError, a DryRunSimulated file is counted as a success with its size
\* and a MetadataError file as a failure.
C5_DryRunNeverInvokes ==
    cli.dry_run =>
        /\ \A f \in Files :
              /\ brctl[f] = 0
              /\ fpc[f] \notin LiveEvictionBranch
              /\ outcome[f] \in {"none", "DryRunSimulated", "MetadataError"}
              /\ fpc[f] = "Recorded" => outcome[f] # "none"
        /\ stats.successful = Cardinality({f \in Files : outcome[f] = "DryRunSimulated"})
        /\ stats.successful_bytes =
              SumSize({f \in Files : outcome[f] = "DryRunSimulated" /\ fpc[f] = "Recorded"})
        /\ stats.failed = Cardinality({f \in Files : outcome[f] = "MetadataError"})
        /\ stats.failed_bytes = 0

\* C5 witness: a dry run in which one file was recorded as DryRunSimulated and
\* another as MetadataError.
C5_Witness ==
    /\ cli.dry_run
    /\ \E f \in Files : fpc[f] = "Recorded" /\ outcome[f] = "DryRunSimulated"
    /\ \E f \in Files : fpc[f] = "Recorded" /\ outcome[f] = "MetadataError"

\* C6: the files past the interrupt check and not yet Recorded never number
\* more than the pool's threads, which is `concurrency` when that is not 0.
C6_ConcurrencyBound ==
    /\ Cardinality(Busy) <= pool_threads
    /\ concurrency > 0 => Cardinality(Busy) <= concurrency

\* C6 witness: every thread of the pool is busy, one of them in the dry-run or
\* live branch, while a file is still waiting to be claimed.
C6_Witness ==
    /\ pool_threads >= 1
    /\ Cardinality(Busy) = pool_threads
    /\ Unclaimed # {}
    /\ \E f \in Busy : fpc[f] \in DryRunBranch \cup LiveEvictionBranch

\* C7: the closure is invoked at most once per file, also after a failure, and
\* the attempted counter is incremented at most once per file.
C7_OneInvocationPerFile ==
    /\ \A f \in Files : invocs[f] <= 1 /\ attempts[f] <= 1
    /\ \A f \in Files : fpc[f] # "Start" /\ fpc[f] # "Dropped" => invocs[f] = 1
    /\ files > 0 => stats.attempted = SumAttempts(Files)

\* C7 witness: the run is over, every file was processed, one of them failed,
\* and none was processed again.
C7_Witness ==
    /\ proc = "returned" /\ files >= 2
    /\ \A f \in Files : fpc[f] = "Recorded" /\ invocs[f] = 1
    /\ \E f \in Files : outcome[f] \in Failures

\* C8 as claimed, for the runs in which no closure invocation panics: when the
\* process has ended, every file is Recorded or was skipped because of the
\* interrupt (a file never claimed after the flag was set counts as skipped, and
\* a file inside a metadata or brctl call is not held against the claim); and
\* the orchestrator's summary is printed only when no file is being processed.
C8_AllRecordedOrSkipped ==
    /\ (proc # "running" /\ files > 0 /\ ~panicked) =>
          \A f \in Files : \/ fpc[f] \in {"Recorded", "Skipped", "Metadata", "Command"}
                           \/ (fpc[f] = "Start" /\ shutdown_flag)
    /\ (\E i \in Printed : summaries[i].by = "main") =>
          \A f \in Files : fpc[f] \in Terminal

\* C9: every summary printed, by the handler or by the orchestrator, reports an
\* attempted count of at most the number of files discovered.
C9_AttemptedAtMostFiles ==
    /\ \A i \in Printed : Report(i).attempted <= files
    /\ files > 0 => stats.attempted <= files

\* C9 witness: the handler printed a summary with a nonzero attempted count
\* while a closure invocation was still running.
C9_Witness ==
    /\ \E i \in Printed : summaries[i].by = "handler" /\ Report(i).attempted >= 1
    /\ Busy # {}

MetadataFailed == {f \in Files : outcome[f] = "MetadataError"}
CommandFailures == {f \in Files : outcome[f] \in {"CommandFailed", "CommandError"}}
Successes == {f \in Files : outcome[f] \in {"DryRunSimulated", "Evicted"}}
RecordedIn(S) == {f \in S : fpc[f] = "Recorded"}

\* C11: a file whose metadata lookup failed was counted as attempted once, is
\* Recorded, never had brctl started for it and has no size; it adds 1 to the
\* failed count and nothing to any byte counter or to the successful count (the
\* counters are exactly what the files account for, a MetadataError file
\* accounting for 1 attempted, 1 failed and 0 bytes); one such file alone
\* gives failed = 1, failed_bytes = 0, successful = 0.
C11_MetadataFailureCounts ==
    /\ \A f \in MetadataFailed :
          attempts[f] = 1 /\ fpc[f] = "Recorded" /\ brctl[f] = 0 /\ fsize[f] = 0
    /\ stats.failed = Cardinality(MetadataFailed) + Cardinality(CommandFailures)
    /\ stats.failed_bytes = SumSize(RecordedIn(CommandFailures))
    /\ stats.successful = Cardinality(Successes)
    /\ stats.successful_bytes = SumSize(RecordedIn(Successes))
    /\ stats.attempted_bytes = SumSize(Files \ MetadataFailed)
    /\ (files = 1 /\ MetadataFailed = {1}) =>
          stats = [attempted |-> 1, successful |-> 0, failed |-> 1,
                   attempted_bytes |-> 0, successful_bytes |-> 0, failed_bytes |-> 0]

\* C11 witness: the only file of a live run failed its metadata lookup and the
\* orchestrator printed 1 attempted, 1 failed, 0 bytes failed.
C11_Witness ==
    /\ ~cli.dry_run /\ files = 1 /\ MetadataFailed = {1}
    /\ \E i \in Printed : /\ summaries[i].by = "main"
                          /\ Report(i).attempted = 1 /\ Report(i).failed = 1
                          /\ Report(i).failed_bytes = 0 /\ Report(i).successful = 0

\* The main thread is past the walk of lines 67-72.
Enumerated == main_pc # "resolve" /\ main_pc # "walk"

\* C12: when the walk collected no file, "No files found" is written and main
\* has returned: no handler was registered, no pool was built, every counter is
\* 0, no closure invocation exists, no print_summary was started and no summary
\* was printed; and "No files found" is written in no other case.
C12_NoFilesNoWork ==
    /\ (Enumerated /\ files = 0) =>
          /\ diag = "no_files"
          /\ main_pc = "returned" /\ proc = "returned"
          /\ pool_threads = 0 /\ ~handler_set
          /\ stats = ZeroStats
          /\ fpc = <<>> /\ invocs = <<>> /\ attempts = <<>>
          /\ snap["main"] = <<>> /\ snap["handler"] = <<>>
          /\ summaries = <<>>
    /\ diag = "no_files" => (Enumerated /\ files = 0)

\* C12 witness: the directory was read, holds no regular file, and main has
\* returned after "No files found".
C12_Witness ==
    /\ Enumerated /\ files = 0 /\ ~walk_err
    /\ diag = "no_files" /\ proc = "returned"

\* C13 as claimed: when the root directory could not be read, the run has ended
\* other than by main's normal return, with a message on the error stream that
\* is about the error (something else than nothing or "No files found"), and
\* no file was handed to a worker.
C13_WalkErrorFatal ==
    walk_err =>
        /\ proc # "running" /\ proc # "returned"
        /\ diag # "none" /\ diag # "no_files"
        /\ \A f \in Files : invocs[f] = 0

\* The handler printed a summary and ended the process with exit status 0.
HandlerFinished ==
    /\ proc = "exit0"
    /\ \E i \in Printed : summaries[i].by = "handler"

\* C14 as claimed: a SIGINT delivered once the handler is installed always
\* leads to the handler printing a summary and ending the process with status 0.
C14_SignalLeadsToHandlerExit == sig_pending ~> HandlerFinished

\* C14 amended: a SIGINT delivered once the handler is installed leads to the
\* handler printing a summary and ending the process with status 0, unless the
\* process ends first because main returned or a panic reached main; the process
\* ends in those two ways only when no closure invocation is in progress, so
\* with a worker blocked forever in brctl the handler always ends the process.
C14_SignalLeadsToExit ==
    /\ sig_pending ~> (HandlerFinished \/ proc \in {"returned", "panic"})
    /\ [](proc \in {"returned", "panic"} => Busy = {})

\* C14 witness: the handler printed its summary and ended the process while a
\* worker was inside the brctl call.
C14_Witness ==
    /\ HandlerFinished
    /\ \E f \in Files : fpc[f] = "Command"

\* The files whose outcome was counted (stats.1 or stats.2 incremented for them).
Counted == {f \in Files : outcome[f] # "none"}

\* C15: a file that is Recorded passed the interrupt check, had stats.0
\* incremented for it once, and has one outcome; an outcome is counted only
\* after the attempt was; each outcome counted is one increment of either the
\* successful or the failed count, never both; and once a file is Recorded the
\* bytes added for it to the successful or the failed total are the bytes added
\* for it to the attempted total.
C15_OneAttemptOneOutcome ==
    /\ \A f \in Files :
          /\ fpc[f] = "Recorded" =>
                check_saw[f] = "false" /\ attempts[f] = 1 /\ outcome[f] # "none"
          /\ outcome[f] # "none" => attempts[f] = 1
          /\ attempts[f] = 1 => check_saw[f] = "false"
    /\ Counted = Successes \cup MetadataFailed \cup CommandFailures
    /\ stats.successful = Cardinality(Successes)
    /\ stats.failed = Cardinality(Counted \ Successes)
    /\ stats.successful + stats.failed = Cardinality(Counted)
    /\ stats.attempted >= Cardinality(Counted)
    /\ stats.attempted_bytes = SumSize(Files)
    /\ stats.successful_bytes + stats.failed_bytes = SumSize(RecordedIn(Files))
    /\ stats.successful_bytes = SumSize(RecordedIn(Successes))

\* C15 witness: in a live run one file is Recorded as evicted and another as
\* failed by brctl, each with its bytes in the matching totals.
C15_Witness ==
    /\ \E f \in RecordedIn(Successes) : outcome[f] = "Evicted" /\ fsize[f] > 0
    /\ \E f \in RecordedIn(CommandFailures) : fsize[f] > 0
    /\ stats.successful_bytes > 0 /\ stats.failed_bytes > 0
    /\ stats.attempted_bytes = stats.successful_bytes + stats.failed_bytes

\* C16: the step in which a closure invocation loads the flag as true changes
\* none of the six counters and ends the invocation (Skipped); and a file whose
\* check loaded true never has an attempt counted, a size obtained from
\* metadata, a brctl call or an outcome.
C16_SkipLeavesCountersAlone ==
    [][/\ \A f \in Files :
             (fpc[f] = "Start" /\ check_saw'[f] = "true") =>
                /\ stats' = stats
                /\ fpc'[f] = "Skipped"
                /\ <<fsize, outcome, attempts, brctl>>' = <<fsize, outcome, attempts, brctl>>
       /\ \A f \in 1..files' :
             check_saw'[f] = "true" =>
                /\ fpc'[f] = "Skipped"
                /\ attempts'[f] = 0 /\ fsize'[f] = 0 /\ brctl'[f] = 0
                /\ outcome'[f] = "none"]_vars

\* C16 witness: a file was skipped by its check while another file, attempted
\* before the flag was set, has been recorded; the counters hold that file only.
C16_Witness ==
    /\ \E f \in Files : check_saw[f] = "true" /\ fpc[f] = "Skipped"
    /\ \E f \in Files : fpc[f] = "Recorded"
    /\ stats.attempted = 1 /\ stats.successful + stats.failed = 1

\* The summaries of the sequence s that the handler printed.
ByHandler(s) == {i \in 1..Len(s) : s[i].by = "handler"}

\* C17: the flag changes only by the handler's store, made when the handler
\* thread takes a signal, and is never set back to false; the handler prints its
\* summary only with the flag set, and ends the process with status 0 only after
\* it printed; a SIGINT delivered after the first is never taken (the closure
\* does not return), so there is no second store and the handler prints at most
\* one summary.
C17_HandlerOrder ==
    [][/\ shutdown_flag => shutdown_flag'
       /\ shutdown_flag' # shutdown_flag =>
             /\ sig_pending /\ handler_pc = "wait"
             /\ handler_pc' = "summary"
       /\ handler_pc # "wait" => handler_pc' # "wait"
       /\ handler_pc' # "wait" => shutdown_flag'
       /\ ByHandler(summaries') # ByHandler(summaries) =>
             /\ shutdown_flag /\ handler_pc = "summary" /\ handler_pc' = "exit"
             /\ proc = "running"
       /\ Cardinality(ByHandler(summaries')) <= 1
       /\ proc' = "exit0" =>
             /\ shutdown_flag'
             /\ Cardinality(ByHandler(summaries')) = 1
             /\ handler_pc = "exit"]_vars

\* C17 witness: a second SIGINT was delivered while the closure ran, and the
\* process was ended by the handler after the one summary it printed.
C17_Witness ==
    /\ proc = "exit0" /\ sig_pending
    /\ shutdown_flag
    /\ Cardinality(ByHandler(summaries)) = 1

\* successful + failed <= attempted, in counts and in bytes
Ordered(st) ==
    /\ st.successful + st.failed <= st.attempted
    /\ st.successful_bytes + st.failed_bytes <= st.attempted_bytes

\* C18: before and after every step, also with closure invocations between two
\* of their fetch_adds, the counters satisfy successful + failed <= attempted
\* and successful_bytes + failed_bytes <= attempted_bytes; and no step lowers
\* any of the six counters.
C18_CountersOrderedAndMonotone ==
    [][/\ Ordered(stats) /\ Ordered(stats')
       /\ \A c \in DOMAIN stats : stats'[c] >= stats[c]]_vars

\* C18 witness: one invocation has counted its outcome but not yet its bytes
\* while another has counted its attempt only: both inequalities are strict.
C18_Witness ==
    /\ \E f \in Files : fpc[f] \in {"EvictedBytes", "FailBytes", "DryBytes"}
    /\ \E f \in Files : fpc[f] = "Metadata"
    /\ stats.successful + stats.failed < stats.attempted
    /\ stats.successful_bytes + stats.failed_bytes < stats.attempted_bytes

\* C19 as claimed: at most one summary is printed in a run; when the handler
\* has printed one, the orchestrator has printed none.
C19_SummaryAtMostOnce ==
    /\ Len(summaries) <= 1
    /\ ByHandler(summaries) # {} => \A i \in Printed : summaries[i].by # "main"

\* C20 as claimed: every summary printed, by the orchestrator or by the handler,
\* reports successful + failed <= attempted and successful_bytes + failed_bytes
\* <= attempted_bytes.
C20_EverySummaryOrdered ==
    \A i \in Printed : Ordered(Report(i))

\* C20 amended: every summary the orchestrator prints reports successful +
\* failed <= attempted and successful_bytes + failed_bytes <= attempted_bytes;
\* a summary printed by the handler reports for each counter a value that the
\* counter held when it was loaded, so at most the counter's value from then on
\* (and likewise every value a running print_summary has loaded so far), but
\* its six values need not satisfy the two inequalities.
C20_SummaryValuesWereHeld ==
    /\ \A i \in Printed :
          /\ summaries[i].by = "main" => Ordered(Report(i))
          /\ \A c \in DOMAIN stats : Report(i)[c] <= stats[c]
    /\ \A t \in DOMAIN snap :
          \A k \in 1..Len(snap[t]) : snap[t][k] <= stats[CounterOrder[k]]

\* C20 witness: the handler printed a summary whose successful + failed exceeds
\* its attempted, the attempt and the outcome of a file having been counted
\* between its loads.
C20_Witness ==
    \E i \in Printed :
        /\ summaries[i].by = "handler"
        /\ Report(i).successful + Report(i).failed > Report(i).attempted
        /\ Report(i).attempted < stats.attempted

====
